---------------------------- MODULE Spec2Model ----------------------------
(***************************************************************************)
(* A model of cache/diff.go: the delta codec (MarshalRefs/UnmarshalRefs),  *)
(* the buffered, pipelined reference index (RefIndex with its dispatch and *)
(* writer goroutines), the two facades (CoordsRefIndex, WaysRefIndex) and  *)
(* the DiffCache that owns one of each.                                    *)
(*                                                                         *)
(* Integers are two's complement words of IntBits bits and a varint byte   *)
(* carries GroupBits payload bits below its continuation bit: int64 and    *)
(* the 7-bit groups of encoding/binary, scaled down so that every word and *)
(* every byte string can be enumerated.  The scaled format keeps the       *)
(* shape of the real one: a varint needs up to MaxVarintLen bytes and the  *)
(* last of them has fewer than GroupBits significant bits.                 *)
(***************************************************************************)
EXTENDS Integers, Sequences, FiniteSets, TLC

\* ------------------------------------------------------------------------
\* Words and bytes
\* ------------------------------------------------------------------------

\* Width of an id or ref (int64 in the source), in bits.
IntBits == 5

\* Payload bits of one varint byte (7 in encoding/binary).
GroupBits == 2

RECURSIVE Pow2(_)
Pow2(n) == IF n = 0 THEN 1 ELSE 2 * Pow2(n - 1)

Word == Pow2(IntBits)
MinInt == -(Word \div 2)
MaxInt == (Word \div 2) - 1
Int64 == MinInt..MaxInt

\* The continuation bit of a varint byte (0x80), and the bytes.
ContBit == Pow2(GroupBits)
Byte == 0..(2 * ContBit - 1)

\* binary.MaxVarintLen64: the bytes of the longest varint (10 for 64/7).
MaxVarintLen == (IntBits + GroupBits - 1) \div GroupBits

\* Mutant of WrapAdd: the sum is not reduced to the word.
WrapAddUnbounded(a, b) == a + b

\* Conversion int64 <-> uint64, and the wrapping int64 arithmetic of Go.
ToUnsigned(x) == x % Word
ToSigned(u) == IF u >= Word \div 2 THEN u - Word ELSE u
WrapAdd(a, b) == ToSigned((a + b) % Word)
WrapSub(a, b) == ToSigned((a - b) % Word)

\* ------------------------------------------------------------------------
\* encoding/binary varints, as called by MarshalRefs and UnmarshalRefs
\* ------------------------------------------------------------------------

\* binary.PutUvarint: GroupBits bits at a time, least significant group
\* first, the continuation bit set on all but the last byte.
RECURSIVE PutUvarint(_)
PutUvarint(u) ==
    IF u >= ContBit
    THEN <<(u % ContBit) + ContBit>> \o PutUvarint(u \div ContBit)
    ELSE <<u>>

\* binary.PutVarint: zigzag, ux = uint64(x) << 1, complemented when x < 0.
ZigZag(x) ==
    LET ux == (2 * ToUnsigned(x)) % Word
    IN IF x < 0 THEN (Word - 1) - ux ELSE ux

PutVarint(x) == PutUvarint(ZigZag(x))

\* binary.ReadUvarint from position pos of buf (1-based).  The result is
\* [val, err, next]: err is "nil", "EOF" (no byte at all was left),
\* "UnexpectedEOF" (the input ended inside a varint; toolchains before
\* Go 1.19 report io.EOF here) or "overflow" (more than MaxVarintLen bytes,
\* or a last byte with bits beyond the word).
RECURSIVE ReadUvarintFrom(_, _, _, _, _)
ReadUvarintFrom(buf, pos, i, x, scale) ==
    IF i = MaxVarintLen
    THEN [val |-> x, err |-> "overflow", next |-> pos]
    ELSE IF pos > Len(buf)
    THEN [val |-> x, err |-> IF i = 0 THEN "EOF" ELSE "UnexpectedEOF", next |-> pos]
    ELSE LET b == buf[pos]
         IN IF b < ContBit
            THEN IF i = MaxVarintLen - 1
                    /\ b >= Pow2(IntBits - GroupBits * (MaxVarintLen - 1))
                 THEN [val |-> x, err |-> "overflow", next |-> pos + 1]
                 ELSE [val |-> x + b * scale, err |-> "nil", next |-> pos + 1]
            ELSE ReadUvarintFrom(buf, pos + 1, i + 1,
                                 x + (b - ContBit) * scale, scale * ContBit)

ReadUvarint(buf, pos) == ReadUvarintFrom(buf, pos, 0, 0, 1)

\* binary.ReadVarint: undo the zigzag, x = ux >> 1, complemented when ux is odd.
UnZigZag(ux) == IF ux % 2 = 1 THEN -(ux \div 2) - 1 ELSE ux \div 2

ReadVarint(buf, pos) ==
    LET r == ReadUvarint(buf, pos)
    IN [val |-> UnZigZag(r.val % Word), err |-> r.err, next |-> r.next]

\* ------------------------------------------------------------------------
\* The delta codec
\* ------------------------------------------------------------------------

\* UnmarshalRefs: the loop reads varints until ReadVarint fails; io.EOF
\* ends it silently, any other error is logged and ends it too.  Either
\* way the refs decoded so far are returned: the function has no error
\* result.  The value here is [refs, err]: err is the error the loop
\* stopped on, which the caller never sees.
RECURSIVE UnmarshalLoop(_, _, _, _)
UnmarshalLoop(buf, pos, lastRef, refs) ==
    LET r == ReadVarint(buf, pos)
    IN IF r.err # "nil"
       THEN [refs |-> refs, err |-> r.err]
       ELSE LET ref == WrapAdd(lastRef, r.val)
            IN UnmarshalLoop(buf, r.next, ref, Append(refs, ref))

UnmarshalRefs(buf) == UnmarshalLoop(buf, 1, 0, <<>>).refs

\* What log.Println of UnmarshalRefs is given: nothing on io.EOF.
UnmarshalLogged(buf) == UnmarshalLoop(buf, 1, 0, <<>>).err \notin {"nil", "EOF"}

\* Bytes MarshalRefs reserves per ref before it has to grow its buffer
\* (4 of the 10 a varint can take in the source; 1 of 3 at this width).
BytesPerRef == 1

\* MarshalRefs: the deltas ref - lastRef (wrapping), each as a varint.  The
\* buffer starts with len(refs)*BytesPerRef + MaxVarintLen bytes and doubles
\* whenever fewer than MaxVarintLen are left; PutVarint panics on a buffer
\* too short, and the bytes written until then are all there is.
\* The value is [buf, panic, cap].
RECURSIVE MarshalLoop(_, _, _, _, _)
MarshalLoop(refs, k, lastRef, cap, out) ==
    IF k > Len(refs)
    THEN [buf |-> out, panic |-> FALSE, cap |-> cap]
    ELSE LET cap2 == IF cap - Len(out) < MaxVarintLen THEN cap * 2 ELSE cap
             enc  == PutVarint(WrapSub(refs[k], lastRef))
         IN IF Len(out) + Len(enc) > cap2
            THEN [buf |-> out, panic |-> TRUE, cap |-> cap2]
            ELSE MarshalLoop(refs, k + 1, refs[k], cap2, out \o enc)

MarshalRefs(refs) ==
    MarshalLoop(refs, 1, 0, Len(refs) * BytesPerRef + MaxVarintLen, <<>>).buf

\* Whether MarshalRefs(refs) had to grow its buffer.
MarshalGrew(refs) ==
    MarshalLoop(refs, 1, 0, Len(refs) * BytesPerRef + MaxVarintLen, <<>>).cap
        > Len(refs) * BytesPerRef + MaxVarintLen

\* ------------------------------------------------------------------------
\* The reference index: domains and bounds
\* ------------------------------------------------------------------------

\* The child ids and parent refs the clients draw from (both signs).
Ids == {-2, 3}
Refs == {-3, 9}

\* element.NODE, element.WAY, element.RELATION.
MemberTypes == {"NODE", "WAY", "RELATION"}

\* Entries accepted over one life of an index.
MaxAdds == 3

\* Longest member list of one way or relation.
MaxItems == 2

\* cacheSize: distinct ids at which the live buffer is handed off
\* (64 * 1024 in the source, scaled).
cacheSize == 2

\* Capacity of index.add (1024 in the source, scaled), of index.write and
\* of the process-wide refCaches.
AddCap == 2
WriteCap == 2
PoolCap == 1

NoBuf == -1
NoGet == [id |-> 0, refs |-> <<>>, called |-> FALSE]

SeqsUpTo(S, n) == UNION {[1..k -> S] : k \in 0..n}

\* ------------------------------------------------------------------------
\* Pure helpers of the index
\* ------------------------------------------------------------------------

\* sort.Search(n, f): binary search for the smallest index in 0..n with f.
RECURSIVE SearchFrom(_, _, _, _)
SearchFrom(refs, ref, i, j) ==
    IF i < j
    THEN LET h == (i + j) \div 2
         IN IF ~(refs[h + 1] >= ref)
            THEN SearchFrom(refs, ref, h + 1, j)
            ELSE SearchFrom(refs, ref, i, h)
    ELSE i

\* Mutant of insertRefs: the ref is always appended.
insertRefsAppend(refs, ref) == Append(refs, ref)

\* insertRefs: insert ref before the first element >= ref, else append.
insertRefs(refs, ref) ==
    LET i == SearchFrom(refs, ref, 0, Len(refs))
    IN IF i < Len(refs) /\ refs[i + 1] >= ref
       THEN SubSeq(refs, 1, i) \o <<ref>> \o SubSeq(refs, i + 1, Len(refs))
       ELSE Append(refs, ref)

\* addToCache on a buffer m (a map from id to refs).
addToCache(m, id, ref) ==
    IF id \in DOMAIN m
    THEN [m EXCEPT ![id] = insertRefs(@, ref)]
    ELSE (id :> insertRefs(<<>>, ref)) @@ m

\* sort.Sort(byInt64(refs)).
RECURSIVE SortRefs(_)
SortRefs(refs) ==
    IF refs = <<>> THEN <<>>
    ELSE LET rest == SortRefs(Tail(refs))
             lower == SelectSeq(rest, LAMBDA x : x < Head(refs))
             upper == SelectSeq(rest, LAMBDA x : x >= Head(refs))
         IN lower \o <<Head(refs)>> \o upper

\* Width of a store byte, and idToKeyBuf: the big-endian fixed-width bytes
\* of uint64(id).
ByteBits == GroupBits + 1
KeyLen == (IntBits + ByteBits - 1) \div ByteBits
idToKeyBuf(id) ==
    [i \in 1..KeyLen |->
        (ToUnsigned(id) \div Pow2(ByteBits * (KeyLen - i))) % Pow2(ByteBits)]

\* db.Get: the bytes stored under key, or nil.
DbGet(store, key) ==
    IF key \in DOMAIN store
    THEN [found |-> TRUE, data |-> store[key]]
    ELSE [found |-> FALSE, data |-> <<>>]

\* Mutant of loadAppendMarshal: the record is replaced by the new refs.
loadAppendMarshalReplace(store, keyBuf, newRefs) == MarshalRefs(newRefs)

\* loadAppendMarshal: with no record the new refs are marshalled as they
\* are; otherwise the decoded record and the new refs are concatenated and
\* sorted again.
loadAppendMarshal(store, keyBuf, newRefs) ==
    LET rec == DbGet(store, keyBuf)
    IN IF ~rec.found
       THEN MarshalRefs(newRefs)
       ELSE MarshalRefs(SortRefs(UnmarshalRefs(rec.data) \o newRefs))

\* The refs the record persisted for id decodes to (none without a record).
Persisted(store, id) ==
    IF idToKeyBuf(id) \in DOMAIN store
    THEN UnmarshalRefs(store[idToKeyBuf(id)])
    ELSE <<>>

\* ------------------------------------------------------------------------
\* State
\* ------------------------------------------------------------------------

VARIABLES
    kind,        \* "coords" (CoordsRefIndex) or "ways" (WaysRefIndex)
    call,        \* the facade call in progress: [op, id, n, sent, want]
    got,         \* the result of the Get that has just returned
    cpc,         \* RefIndex.Close: "open", "waitAdd", "waitWrite", "closed"
    add,         \* index.add, the queue of accepted entries
    addClosed,   \* close(index.add) has run
    dpc,         \* dispatch: "recv", "handoff", "refill", "final", "done"
    buffer,      \* index.buffer: the live buffer, or NoBuf
    heap,        \* the buffers (maps id -> refs) by identity
    nextBuf,     \* the identity of the next map made
    write,       \* index.write, the hand-off queue of buffers
    writeClosed, \* close(index.write) has run
    wpc,         \* writer: "recv", "merge", "write", "done"
    wbuf,        \* the buffer writeRefs is flushing, or NoBuf
    todo,        \* ids of wbuf no worker has merged yet
    batch,       \* the write batch: key -> marshalled refs
    recyclers,   \* goroutines of writeRefs offering a buffer: buffer -> step
    refCaches,   \* the process-wide pool of emptied buffers
    db,          \* the store: key -> bytes
    dbOpen,      \* the store handle is open
    accepted,    \* history: the entries sent on index.add, in order
    expected,    \* history: per id, the refs the facade calls stand for
    db0,         \* history: the store as the index was opened on it
    wsnap,       \* history: wbuf as it was handed off
    flushed,     \* history: per id, the refs of every completed flush
    decIn,       \* codec: the bytes handed to UnmarshalRefs
    encIn,       \* codec: the refs handed to MarshalRefs
    codecOut,    \* codec: what the last codec call returned
    Coords,      \* DiffCache.Coords: an index instance, or NoIndex
    Ways,        \* DiffCache.Ways: an index instance, or NoIndex
    opened,      \* DiffCache.opened
    live,        \* the index instances whose store handle is open
    paths,       \* the path each index instance made so far was opened on
    disk,        \* the store directories that exist under DiffCache.Dir
    ret,         \* what the last call on the DiffCache returned
    openedNow,   \* history: the instances the last Open() made
    keyIn,       \* key encoder: the two ids handed to idToKeyBuf
    keyOut,      \* key encoder: the keys idToKeyBuf returned for them
    threshold,   \* the distinct ids at which dispatch hands its buffer off
    writeErrs,   \* history: the buffers whose writeRefs returned an error
    lives        \* history: the indexes opened in this process so far

clientVars == <<kind, call, got, cpc, accepted, expected>>
dispatchVars == <<add, addClosed, dpc, buffer, heap, nextBuf>>
writerVars == <<write, writeClosed, wpc, wbuf, todo, batch, recyclers,
                refCaches, db, dbOpen, db0, wsnap, flushed>>
indexVars == <<clientVars, dispatchVars, writerVars>>
codecVars == <<decIn, encIn, codecOut>>
diffVars == <<Coords, Ways, opened, live, paths, disk, ret, openedNow>>
keyVars == <<keyIn, keyOut>>
envVars == <<threshold, writeErrs, lives>>
outerVars == <<codecVars, diffVars, keyVars, envVars>>
vars == <<indexVars, codecVars, diffVars, keyVars, envVars>>

NoCodec == [op |-> "none", refs |-> <<>>, buf |-> <<>>, err |-> FALSE,
            rt |-> FALSE]
CodecIdle == decIn = <<>> /\ encIn = <<>> /\ codecOut = NoCodec

NoCall == [op |-> "none", id |-> 0, n |-> 0, sent |-> <<>>, want |-> <<>>]

\* The stores an index can be opened on: a new one, or one that holds the
\* records of an earlier life of the index.
InitialStores ==
    {<<>>, (idToKeyBuf(3) :> MarshalRefs(<<9>>))}

\* Stores with a malformed record for the id 3: the record of <<9>> cut
\* inside a following varint, and a record that begins with a varint too
\* long for the word.
CorruptStores ==
    {(idToKeyBuf(3) :> MarshalRefs(<<9>>) \o <<ContBit>>),
     (idToKeyBuf(3) :> [i \in 1..MaxVarintLen |-> ContBit + 1] \o MarshalRefs(<<9>>))}

\* NewRefIndex on one of stores: the store is open, the queues are empty,
\* the live buffer is a new map and both goroutines are started.  refCaches
\* is process-wide: it is empty or holds a buffer emptied by another index.
IndexInitOn(stores) ==
    /\ call = NoCall
    /\ got = NoGet
    /\ cpc = "open"
    /\ add = <<>>
    /\ addClosed = FALSE
    /\ dpc = "recv"
    /\ buffer = 1
    /\ nextBuf = 2
    /\ write = <<>>
    /\ writeClosed = FALSE
    /\ wpc = "recv"
    /\ wbuf = NoBuf
    /\ todo = {}
    /\ batch = <<>>
    /\ recyclers = <<>>
    /\ \E pooled \in BOOLEAN :
          /\ refCaches = IF pooled THEN <<0>> ELSE <<>>
          /\ heap = IF pooled THEN (0 :> <<>>) @@ (1 :> <<>>) ELSE (1 :> <<>>)
    /\ db \in stores
    /\ db0 = db
    /\ dbOpen = TRUE
    /\ accepted = <<>>
    /\ expected = [id \in Ids |-> <<>>]
    /\ wsnap = <<>>
    /\ flushed = [id \in Ids |-> Persisted(db, id)]

IndexInit == IndexInitOn(InitialStores)

\* An index on a new store with an empty pool, untouched.
IndexIdle == IndexInit /\ db = <<>> /\ refCaches = <<>>

\* ------------------------------------------------------------------------
\* The facades and Get (the client's goroutine)
\* ------------------------------------------------------------------------

\* refs with ref merged into the refs of id (sorted: a multiset).
WithRef(refs, id, ref) == [refs EXCEPT ![id] = SortRefs(Append(@, ref))]

\* A facade call begins: its arguments are bound, nothing is sent yet.  The
\* member list of the way or relation is any list of at most MaxItems
\* members; the model fixes each member as the loop reaches it.
BeginCall(op, id) ==
    /\ cpc = "open"
    /\ call = NoCall
    /\ call' = [op |-> op, id |-> id, n |-> 0, sent |-> <<>>, want |-> <<>>]
    /\ got' = NoGet
    /\ UNCHANGED <<kind, cpc, accepted, expected, dispatchVars, writerVars,
                   outerVars>>

\* CoordsRefIndex.AddFromWay(way) is called.
AddFromWayCall ==
    /\ kind = "coords"
    /\ \E wayId \in Refs : BeginCall("AddFromWay", wayId)

\* WaysRefIndex.AddFromMembers(relId, members) is called.
AddFromMembersCall ==
    /\ kind = "ways"
    /\ \E relId \in Refs : BeginCall("AddFromMembers", relId)

\* Mutant of WayEntry: id and ref are swapped.
WayEntrySwapped(node, wayId) == [id |-> wayId, ref |-> node]

\* The entry one iteration of AddFromWay sends: idRef{node.Id, way.Id}.
WayEntry(node, wayId) == [id |-> node, ref |-> wayId]

\* The entry AddFromMembers sends for a member of type WAY: idRef{member.Id, relId}.
MemberEntry(member, relId) == [id |-> member.Id, ref |-> relId]

\* Mutant of MemberSelected: every member is sent.
MemberSelectedAll(member) == TRUE

\* Whether AddFromMembers sends an entry for member: member.Type == element.WAY.
MemberSelected(member) == member.Type = "WAY"

\* index.add <- e: blocks while the queue is full.
SendAdd(e) ==
    /\ Len(accepted) < MaxAdds
    /\ Len(add) < AddCap
    /\ add' = Append(add, e)
    /\ accepted' = Append(accepted, e)

\* One iteration of the loop of AddFromWay, on the next point of the line.
\* want and expected record what the line stands for: the entry
\* (point, line).
AddFromWayStep ==
    /\ call.op = "AddFromWay"
    /\ call.n < MaxItems
    /\ \E node \in Ids :
          /\ SendAdd(WayEntry(node, call.id))
          /\ call' = [call EXCEPT
                         !.n = @ + 1,
                         !.sent = Append(@, WayEntry(node, call.id)),
                         !.want = Append(@, [id |-> node, ref |-> call.id])]
          /\ expected' = WithRef(expected, node, call.id)
    /\ got' = NoGet
    /\ UNCHANGED <<kind, cpc, addClosed, dpc, buffer, heap, nextBuf,
                   writerVars, outerVars>>

\* One iteration of the loop of AddFromMembers, on the next member of the
\* relation.  want and expected record what the member stands for: the
\* entry (member, relation) if its type is WAY, nothing otherwise.
AddFromMembersStep ==
    /\ call.op = "AddFromMembers"
    /\ call.n < MaxItems
    /\ \E member \in [Id : Ids, Type : MemberTypes] :
          LET stands == IF member.Type = "WAY"
                        THEN <<[id |-> member.Id, ref |-> call.id]>>
                        ELSE <<>>
          IN /\ IF MemberSelected(member)
                THEN /\ SendAdd(MemberEntry(member, call.id))
                     /\ call' = [call EXCEPT
                                    !.n = @ + 1,
                                    !.sent = Append(@, MemberEntry(member, call.id)),
                                    !.want = @ \o stands]
                ELSE /\ call' = [call EXCEPT !.n = @ + 1, !.want = @ \o stands]
                     /\ UNCHANGED <<add, accepted>>
             /\ expected' = IF stands = <<>>
                            THEN expected
                            ELSE WithRef(expected, member.Id, call.id)
    /\ got' = NoGet
    /\ UNCHANGED <<kind, cpc, addClosed, dpc, buffer, heap, nextBuf,
                   writerVars, outerVars>>

\* The member list has no further member: the call returns.
CallReturn ==
    /\ call.op # "none"
    /\ call' = NoCall
    /\ got' = NoGet
    /\ UNCHANGED <<kind, cpc, accepted, expected, dispatchVars, writerVars,
                   outerVars>>

\* Mutant of GetRefs: the refs pending in the live buffer are merged in.
GetRefsWithPending(store, id) ==
    SortRefs(Persisted(store, id) \o
             IF buffer # NoBuf /\ id \in DOMAIN heap[buffer]
             THEN heap[buffer][id] ELSE <<>>)

\* RefIndex.Get: the decoded record, nil when there is none.
GetRefs(store, id) ==
    LET rec == DbGet(store, idToKeyBuf(id))
    IN IF rec.found THEN UnmarshalRefs(rec.data) ELSE <<>>

\* RefIndex.Get(id): a read of the store and nothing else.
Get(id) ==
    /\ cpc = "open"
    /\ dbOpen
    /\ got' = [id |-> id, refs |-> GetRefs(db, id), called |-> TRUE]
    /\ UNCHANGED <<kind, call, cpc, accepted, expected, dispatchVars,
                   writerVars, outerVars>>

GetAny == \E id \in Ids : Get(id)

\* RefIndex.Close, line by line: close(index.add) ...
CloseAdd ==
    /\ cpc = "open"
    /\ call = NoCall
    /\ addClosed' = TRUE
    /\ cpc' = "waitAdd"
    /\ got' = NoGet
    /\ UNCHANGED <<kind, call, accepted, expected, add, dpc, buffer, heap,
                   nextBuf, writerVars, outerVars>>

\* Mutant of WaitWrite: Close does not wait for writer.
WaitWriteSkipped == TRUE

\* index.waitAdd.Wait() and index.waitWrite.Wait() return once dispatch and
\* writer have called Done.
WaitAdd == dpc = "done"
WaitWrite == wpc = "done"

\* ... index.waitAdd.Wait(); close(index.write) ...
CloseWrite ==
    /\ cpc = "waitAdd"
    /\ WaitAdd
    /\ writeClosed' = TRUE
    /\ cpc' = "waitWrite"
    /\ UNCHANGED <<kind, call, got, accepted, expected, dispatchVars, write,
                   wpc, wbuf, todo, batch, recyclers, refCaches, db, dbOpen,
                   db0, wsnap, flushed, outerVars>>

\* ... index.waitWrite.Wait(); index.cache.Close().
CloseStore ==
    /\ cpc = "waitWrite"
    /\ WaitWrite
    /\ dbOpen' = FALSE
    /\ cpc' = "closed"
    /\ UNCHANGED <<kind, call, got, accepted, expected, dispatchVars, write,
                   writeClosed, wpc, wbuf, todo, batch, recyclers, refCaches,
                   db, db0, wsnap, flushed, outerVars>>

\* ------------------------------------------------------------------------
\* dispatch (the buffering goroutine)
\* ------------------------------------------------------------------------

Size(m) == Cardinality(DOMAIN m)

\* for idRef := range index.add: one entry is taken and inserted; at
\* cacheSize distinct ids (threshold) the buffer is to be handed off.
DispatchRecv ==
    /\ dpc = "recv"
    /\ add # <<>>
    /\ LET e == Head(add)
           m == addToCache(heap[buffer], e.id, e.ref)
       IN /\ heap' = [heap EXCEPT ![buffer] = m]
          /\ dpc' = IF Size(m) >= threshold THEN "handoff" ELSE "recv"
    /\ add' = Tail(add)
    /\ got' = NoGet
    /\ UNCHANGED <<kind, call, cpc, accepted, expected, addClosed, buffer,
                   nextBuf, writerVars, outerVars>>

\* Mutant of WriteFull: the hand-off queue takes any number of buffers.
WriteFullNever == FALSE

\* index.write holds as many buffers as its capacity: a send blocks.
WriteFull == Len(write) >= WriteCap

\* index.write <- index.buffer inside the loop: blocks while the hand-off
\* queue is full.
DispatchHandoff ==
    /\ dpc = "handoff"
    /\ ~WriteFull
    /\ write' = Append(write, buffer)
    /\ dpc' = "refill"
    /\ got' = NoGet
    /\ UNCHANGED <<kind, call, cpc, accepted, expected, add, addClosed, buffer,
                   heap, nextBuf, writeClosed, wpc, wbuf, todo, batch,
                   recyclers, refCaches, db, dbOpen, db0, wsnap, flushed,
                   outerVars>>

\* Mutant of DispatchRefill: dispatch goes on with the buffer it handed off.
DispatchRefillKeeps ==
    /\ dpc = "refill"
    /\ dpc' = "recv"
    /\ got' = NoGet
    /\ UNCHANGED <<kind, call, cpc, accepted, expected, add, addClosed, buffer,
                   heap, nextBuf, writerVars, outerVars>>

\* select { case index.buffer = <-refCaches: default: make(...) }.
DispatchRefill ==
    /\ dpc = "refill"
    /\ IF refCaches # <<>>
       THEN /\ buffer' = Head(refCaches)
            /\ refCaches' = Tail(refCaches)
            /\ UNCHANGED <<heap, nextBuf>>
       ELSE /\ buffer' = nextBuf
            /\ heap' = (nextBuf :> <<>>) @@ heap
            /\ nextBuf' = nextBuf + 1
            /\ UNCHANGED refCaches
    /\ dpc' = "recv"
    /\ got' = NoGet
    /\ UNCHANGED <<kind, call, cpc, accepted, expected, add, addClosed, write,
                   writeClosed, wpc, wbuf, todo, batch, recyclers, db, dbOpen,
                   db0, wsnap, flushed, outerVars>>

\* Mutant of AfterLoop: what the buffer still holds is not handed off.
AfterLoopDropsRest(m) == "done"

\* After the loop: if len(index.buffer) > 0 the buffer is still to be
\* handed off, otherwise dispatch is done.
AfterLoop(m) == IF Size(m) > 0 THEN "final" ELSE "done"

\* index.add is closed and drained: the loop ends.
DispatchDrained ==
    /\ dpc = "recv"
    /\ add = <<>>
    /\ addClosed
    /\ dpc' = AfterLoop(heap[buffer])
    /\ got' = NoGet
    /\ UNCHANGED <<kind, call, cpc, accepted, expected, add, addClosed, buffer,
                   heap, nextBuf, writerVars, outerVars>>

\* The last index.write <- index.buffer; index.buffer = nil; waitAdd.Done().
DispatchFinal ==
    /\ dpc = "final"
    /\ ~WriteFull
    /\ write' = Append(write, buffer)
    /\ buffer' = NoBuf
    /\ dpc' = "done"
    /\ got' = NoGet
    /\ UNCHANGED <<kind, call, cpc, accepted, expected, add, addClosed, heap,
                   nextBuf, writeClosed, wpc, wbuf, todo, batch, recyclers,
                   refCaches, db, dbOpen, db0, wsnap, flushed, outerVars>>

\* ------------------------------------------------------------------------
\* writer (the flush goroutine) and writeRefs
\* ------------------------------------------------------------------------

\* Mutant of WriterIdle: writer takes the next buffer while writeRefs is
\* still running on the last one.
WriterIdleAlways == wpc # "done"

\* writer calls writeRefs in its own goroutine and is back at the head of
\* its loop only when writeRefs has returned.
WriterIdle == wpc = "recv"

\* for buffer := range index.write: the next buffer is taken and writeRefs
\* starts on it with an empty batch.
WriterRecv ==
    /\ WriterIdle
    /\ write # <<>>
    /\ wbuf' = Head(write)
    /\ write' = Tail(write)
    /\ todo' = DOMAIN heap[Head(write)]
    /\ batch' = <<>>
    /\ wsnap' = heap[Head(write)]
    /\ wpc' = "merge"
    /\ got' = NoGet
    /\ UNCHANGED <<kind, call, cpc, accepted, expected, dispatchVars,
                   writeClosed, recyclers, refCaches, db, dbOpen, db0, flushed,
                   outerVars>>

\* One worker takes one id of the buffer, loads, merges and marshals its
\* record, and the pair is put into the batch.
WriterMerge(id) ==
    /\ wpc = "merge"
    /\ id \in todo
    /\ LET keyBuf == idToKeyBuf(id)
       IN batch' = (keyBuf :> loadAppendMarshal(db, keyBuf, heap[wbuf][id]))
                   @@ batch
    /\ todo' = todo \ {id}
    /\ got' = NoGet
    /\ UNCHANGED <<kind, call, cpc, accepted, expected, dispatchVars, write,
                   writeClosed, wpc, wbuf, recyclers, refCaches, db, dbOpen,
                   db0, wsnap, flushed, outerVars>>

WriterMergeAny == \E id \in Ids : WriterMerge(id)

\* Every pair is in the batch (putc is closed): the goroutine that empties
\* the buffer and offers it to refCaches is started.
WriterCollected ==
    /\ wpc = "merge"
    /\ todo = {}
    /\ recyclers' = (wbuf :> "clear") @@ recyclers
    /\ wpc' = "write"
    /\ got' = NoGet
    /\ UNCHANGED <<kind, call, cpc, accepted, expected, dispatchVars, write,
                   writeClosed, wbuf, todo, batch, refCaches, db, dbOpen, db0,
                   wsnap, flushed, outerVars>>

\* Mutant of ApplyBatch: only one pair of the batch reaches the store.
ApplyBatchPartial(store, b) ==
    IF b = <<>> THEN store
    ELSE LET k == CHOOSE x \in DOMAIN b : TRUE
         IN [x \in DOMAIN store \cup {k} |-> IF x = k THEN b[k] ELSE store[x]]

\* Mutant of RecycleJoined: writeRefs returns only when the goroutine that
\* offers its buffer to refCaches has ended.
RecycleJoinedWaits(b) == b \notin DOMAIN recyclers

\* writeRefs starts the recycling goroutine with go and never waits for it:
\* as far as returning is concerned it has always ended.
RecycleJoined(b) == TRUE

\* The store with the pairs of a batch applied.
ApplyBatch(store, b) ==
    [k \in DOMAIN store \cup DOMAIN b |->
        IF k \in DOMAIN b THEN b[k] ELSE store[k]]

\* index.db.Write(index.wo, batch): the batch is applied atomically and
\* writeRefs returns to the loop of writer.
WriterWrite ==
    /\ wpc = "write"
    /\ RecycleJoined(wbuf)
    /\ db' = ApplyBatch(db, batch)
    /\ flushed' = [id \in Ids |->
                     IF id \in DOMAIN wsnap
                     THEN flushed[id] \o wsnap[id] ELSE flushed[id]]
    /\ wbuf' = NoBuf
    /\ batch' = <<>>
    /\ wsnap' = <<>>
    /\ wpc' = "recv"
    /\ got' = NoGet
    /\ UNCHANGED <<kind, call, cpc, accepted, expected, dispatchVars, write,
                   writeClosed, todo, recyclers, refCaches, dbOpen, db0,
                   outerVars>>

\* index.db.Write returns an error: the store is as it was, writeRefs
\* returns the error, writer logs it and goes on with its loop.
WriterWriteFail ==
    /\ wpc = "write"
    /\ RecycleJoined(wbuf)
    /\ writeErrs' = writeErrs \cup {wbuf}
    /\ wbuf' = NoBuf
    /\ batch' = <<>>
    /\ wsnap' = <<>>
    /\ wpc' = "recv"
    /\ got' = NoGet
    /\ UNCHANGED <<kind, call, cpc, accepted, expected, dispatchVars, write,
                   writeClosed, todo, recyclers, refCaches, db, dbOpen, db0,
                   flushed, codecVars, diffVars, keyVars, threshold, lives>>

\* index.write is closed and drained: waitWrite.Done().
WriterDrained ==
    /\ wpc = "recv"
    /\ write = <<>>
    /\ writeClosed
    /\ wpc' = "done"
    /\ got' = NoGet
    /\ UNCHANGED <<kind, call, cpc, accepted, expected, dispatchVars, write,
                   writeClosed, wbuf, todo, batch, recyclers, refCaches, db,
                   dbOpen, db0, wsnap, flushed, outerVars>>

\* The recycling goroutine deletes every key of the flushed buffer ...
RecycleClear(b) ==
    /\ b \in DOMAIN recyclers
    /\ recyclers[b] = "clear"
    /\ heap' = [heap EXCEPT ![b] = <<>>]
    /\ recyclers' = [recyclers EXCEPT ![b] = "offer"]
    /\ got' = NoGet
    /\ UNCHANGED <<kind, call, cpc, accepted, expected, add, addClosed, dpc,
                   buffer, nextBuf, write, writeClosed, wpc, wbuf, todo, batch,
                   refCaches, db, dbOpen, db0, wsnap, flushed, outerVars>>

RecycleClearAny == \E b \in DOMAIN heap : RecycleClear(b)

\* ... and sends it to refCaches: it blocks while the pool is full.
RecycleOffer(b) ==
    /\ b \in DOMAIN recyclers
    /\ recyclers[b] = "offer"
    /\ Len(refCaches) < PoolCap
    /\ refCaches' = Append(refCaches, b)
    /\ recyclers' = [x \in DOMAIN recyclers \ {b} |-> recyclers[x]]
    /\ got' = NoGet
    /\ UNCHANGED <<kind, call, cpc, accepted, expected, dispatchVars, write,
                   writeClosed, wpc, wbuf, todo, batch, db, dbOpen, db0, wsnap,
                   flushed, outerVars>>

RecycleOfferAny == \E b \in DOMAIN heap : RecycleOffer(b)

\* Indexes opened one after the other in one process.
MaxLives == 4

\* NewRefIndex once more, after Close has returned: a new index is opened
\* on the store with new queues, a new live buffer and new goroutines.
\* refCaches and the recycling goroutines of earlier indexes are the
\* process's and stay as they are.
Reopen ==
    /\ cpc = "closed"
    /\ lives < MaxLives
    /\ lives' = lives + 1
    /\ call' = NoCall
    /\ got' = NoGet
    /\ cpc' = "open"
    /\ add' = <<>>
    /\ addClosed' = FALSE
    /\ dpc' = "recv"
    /\ buffer' = nextBuf
    /\ heap' = (nextBuf :> <<>>) @@ heap
    /\ nextBuf' = nextBuf + 1
    /\ write' = <<>>
    /\ writeClosed' = FALSE
    /\ wpc' = "recv"
    /\ wbuf' = NoBuf
    /\ todo' = {}
    /\ batch' = <<>>
    /\ dbOpen' = TRUE
    /\ db0' = db
    /\ accepted' = <<>>
    /\ expected' = [id \in Ids |-> <<>>]
    /\ wsnap' = <<>>
    /\ flushed' = [id \in Ids |-> Persisted(db, id)]
    /\ UNCHANGED <<kind, recyclers, refCaches, db, codecVars, diffVars,
                   keyVars, threshold, writeErrs>>

\* ------------------------------------------------------------------------
\* The codec called on its own
\* ------------------------------------------------------------------------

\* Longest ref sequence and longest byte string handed to the codec.
MaxSeqLen == 3
MaxBytesLen == 4

IsAscending(refs) == \A i \in 1..(Len(refs) - 1) : refs[i] <= refs[i + 1]

\* func UnmarshalRefs(buf []byte) []int64: there is no error result, so
\* whatever the loop stopped on, the caller is handed no error.
UnmarshalRefsErr(buf) == FALSE

\* MarshalRefs(encIn) is called; its bytes are what a later UnmarshalRefs
\* is given.
MarshalCall ==
    /\ codecOut.op = "none"
    /\ decIn = <<>>
    /\ codecOut' = [op |-> "MarshalRefs", refs |-> <<>>,
                    buf |-> MarshalRefs(encIn), err |-> FALSE, rt |-> FALSE]
    /\ decIn' = MarshalRefs(encIn)
    /\ UNCHANGED <<encIn, indexVars, diffVars, keyVars, envVars>>

\* UnmarshalRefs(decIn) is called.
UnmarshalCall ==
    /\ codecOut.op \in {"none", "MarshalRefs"}
    /\ codecOut' = [op |-> "UnmarshalRefs", refs |-> UnmarshalRefs(decIn),
                    buf |-> codecOut.buf, err |-> UnmarshalRefsErr(decIn),
                    rt |-> codecOut.op = "MarshalRefs"]
    /\ UNCHANGED <<decIn, encIn, indexVars, diffVars, keyVars, envVars>>

\* Every ascending ref sequence and every byte string within the bounds.
RECURSIVE AscendingOfLen(_)
AscendingOfLen(n) ==
    IF n = 0 THEN {<<>>}
    ELSE UNION {{Append(refs, v) : v \in {w \in Int64 : n = 1 \/ w >= refs[n - 1]}} :
                  refs \in AscendingOfLen(n - 1)}

RefSeqs(maxLen) == UNION {AscendingOfLen(n) : n \in 0..maxLen}
ByteSeqs(maxLen) == SeqsUpTo(Byte, maxLen)

CodecInit ==
    /\ codecOut = NoCodec
    /\ \/ encIn \in RefSeqs(MaxSeqLen) /\ decIn = <<>>
       \/ encIn = <<>> /\ decIn \in ByteSeqs(MaxBytesLen)

\* ------------------------------------------------------------------------
\* DiffCache
\* ------------------------------------------------------------------------

NoIndex == 0
CoordsPath == "coords_index"
WaysPath == "ways_index"

\* Open() calls made on one DiffCache.
MaxOpens == 2

NoRet == [op |-> "none", err |-> FALSE, exists |-> FALSE]

\* NewDiffCache(dir): nothing is open; the directory may hold the stores of
\* an earlier run.
DiffInit ==
    /\ Coords = NoIndex
    /\ Ways = NoIndex
    /\ opened = FALSE
    /\ live = {}
    /\ paths = <<>>
    /\ disk \in SUBSET {CoordsPath, WaysPath}
    /\ ret = NoRet
    /\ openedNow = {}

DiffIdle ==
    /\ Coords = NoIndex
    /\ Ways = NoIndex
    /\ opened = FALSE
    /\ live = {}
    /\ paths = <<>>
    /\ disk = {}
    /\ ret = NoRet
    /\ openedNow = {}

\* index.open(path) of NewRefIndex: whether the store can be opened (it
\* cannot under lock contention, corruption or an I/O error).
CanOpen(path) == {TRUE, FALSE}

\* DiffCache.Close on the fields (c, w): each facade that is set is closed
\* (RefIndex.Close: drained, the store handle released) and unset.  The
\* value is the instances left open.
CloseBoth(liveNow, c, w) == liveNow \ {c, w}

\* DiffCache.Open, called on a cache whose facades are not open.  okC, okW:
\* whether each store could be opened.
Open(okC, okW) ==
    LET hC == Len(paths) + 1
        hW == Len(paths) + 2
    IN /\ Len(paths) < 2 * MaxOpens
       /\ Coords = NoIndex /\ Ways = NoIndex
       /\ IF ~okC
          THEN \* c.Coords = nil; c.Close(); return err
               /\ Coords' = NoIndex
               /\ Ways' = NoIndex
               /\ live' = CloseBoth(live, NoIndex, Ways)
               /\ openedNow' = {}
               /\ ret' = [op |-> "Open", err |-> TRUE, exists |-> FALSE]
               /\ UNCHANGED <<paths, disk, opened>>
          ELSE IF ~okW
          THEN \* c.Coords is set; c.Ways = nil; c.Close(); return err
               /\ Coords' = NoIndex
               /\ Ways' = NoIndex
               /\ live' = CloseBoth(live \cup {hC}, hC, NoIndex)
               /\ paths' = Append(paths, CoordsPath)
               /\ disk' = disk \cup {CoordsPath}
               /\ openedNow' = {hC}
               /\ ret' = [op |-> "Open", err |-> TRUE, exists |-> FALSE]
               /\ UNCHANGED opened
          ELSE \* both are set; c.opened = true; return nil
               /\ Coords' = hC
               /\ Ways' = hW
               /\ live' = live \cup {hC, hW}
               /\ paths' = paths \o <<CoordsPath, WaysPath>>
               /\ disk' = disk \cup {CoordsPath, WaysPath}
               /\ opened' = TRUE
               /\ openedNow' = {hC, hW}
               /\ ret' = [op |-> "Open", err |-> FALSE, exists |-> FALSE]
       /\ UNCHANGED <<indexVars, codecVars, keyVars, envVars>>

DiffOpen == \E okC \in CanOpen(CoordsPath), okW \in CanOpen(WaysPath) : Open(okC, okW)

\* DiffCache.Close.
DiffClose ==
    /\ live' = CloseBoth(live, Coords, Ways)
    /\ Coords' = NoIndex
    /\ Ways' = NoIndex
    /\ ret' = [op |-> "Close", err |-> FALSE, exists |-> FALSE]
    /\ UNCHANGED <<opened, paths, disk, openedNow, indexVars, codecVars, keyVars, envVars>>

\* DiffCache.Exists.
Exists == opened \/ CoordsPath \in disk \/ WaysPath \in disk

DiffExists ==
    /\ ret' = [op |-> "Exists", err |-> FALSE, exists |-> Exists]
    /\ UNCHANGED <<Coords, Ways, opened, live, paths, disk, openedNow,
                   indexVars, codecVars, keyVars, envVars>>

\* DiffCache.Remove.  rmC, rmW: whether os.RemoveAll of each store works.
Remove(rmC, rmW) ==
    /\ IF opened
       THEN /\ live' = CloseBoth(live, Coords, Ways)
            /\ Coords' = NoIndex
            /\ Ways' = NoIndex
       ELSE UNCHANGED <<live, Coords, Ways>>
    /\ IF ~rmC
       THEN /\ ret' = [op |-> "Remove", err |-> TRUE, exists |-> FALSE]
            /\ UNCHANGED disk
       ELSE IF ~rmW
       THEN /\ ret' = [op |-> "Remove", err |-> TRUE, exists |-> FALSE]
            /\ disk' = disk \ {CoordsPath}
       ELSE /\ ret' = [op |-> "Remove", err |-> FALSE, exists |-> FALSE]
            /\ disk' = disk \ {CoordsPath, WaysPath}
    /\ UNCHANGED <<opened, paths, openedNow, indexVars, codecVars, keyVars, envVars>>

DiffRemove == \E rmC \in BOOLEAN, rmW \in BOOLEAN : Remove(rmC, rmW)

\* ------------------------------------------------------------------------
\* The key encoder called on its own
\* ------------------------------------------------------------------------

\* No key has been asked for.
KeyIdle == keyIn = <<>> /\ keyOut = <<>>

\* Any two ids of the whole signed range.
KeyInit == keyIn \in Int64 \X Int64 /\ keyOut = <<>>

\* bytes.Compare(k1, k2) < 0 on keys of one length: at the first byte that
\* differs, the byte of k1 is the smaller as an unsigned number.
KeyLess(k1, k2) ==
    \E i \in 1..Len(k1) :
        /\ k1[i] < k2[i]
        /\ \A j \in 1..(i - 1) : k1[j] = k2[j]

\* idToKeyBuf is called on both ids.
EncodeKeys ==
    /\ keyIn # <<>>
    /\ keyOut = <<>>
    /\ keyOut' = <<idToKeyBuf(keyIn[1]), idToKeyBuf(keyIn[2])>>
    /\ UNCHANGED <<keyIn, indexVars, codecVars, diffVars, envVars>>

\* ------------------------------------------------------------------------
\* The environment of an index
\* ------------------------------------------------------------------------

\* cacheSize scaled so that every entry fills the buffer (see cacheSize).
cacheSizeTight == 1

\* The first index of the process with the threshold cacheSize; no flush
\* has failed.
EnvInit == threshold = cacheSize /\ writeErrs = {} /\ lives = 1

\* The same with either threshold: every entry is handed off, or a buffer
\* can be left below the threshold when the index is closed.
EnvTight ==
    threshold \in {cacheSizeTight, cacheSize} /\ writeErrs = {} /\ lives = 1

\* ------------------------------------------------------------------------
\* Specifications
\* ------------------------------------------------------------------------

\* The goroutines of one index, whatever its facade.
Pipeline ==
    \/ CloseAdd
    \/ CloseWrite
    \/ CloseStore
    \/ DispatchRecv
    \/ DispatchHandoff
    \/ DispatchRefill
    \/ DispatchDrained
    \/ DispatchFinal
    \/ WriterRecv
    \/ WriterMergeAny
    \/ WriterCollected
    \/ WriterWrite
    \/ WriterDrained
    \/ RecycleClearAny
    \/ RecycleOfferAny

\* A CoordsRefIndex fed by AddFromWay calls and closed.
Init == kind = "coords" /\ IndexInit /\ CodecIdle /\ DiffIdle /\ KeyIdle /\ EnvInit

Next ==
    \/ AddFromWayCall
    \/ AddFromWayStep
    \/ CallReturn
    \/ Pipeline

Spec == Init /\ [][Next]_vars

\* The same index with Get calls while it is open.
NextGet == Next \/ GetAny

\* The store already holds a record and the pool of spare buffers is empty,
\* as it is in a process that has not closed an index before.
InitGet == Init /\ refCaches = <<>> /\ db # <<>>

SpecGet == InitGet /\ [][NextGet]_vars

\* A WaysRefIndex fed by AddFromMembers calls and closed.
InitWays ==
    /\ kind = "ways" /\ IndexInit /\ refCaches = <<>>
    /\ CodecIdle /\ DiffIdle /\ KeyIdle /\ EnvInit

NextWays ==
    \/ AddFromMembersCall
    \/ AddFromMembersStep
    \/ CallReturn
    \/ Pipeline

SpecWays == InitWays /\ [][NextWays]_vars

\* The codec on every input within the bounds.
InitCodec ==
    kind = "coords" /\ IndexIdle /\ CodecInit /\ DiffIdle /\ KeyIdle /\ EnvInit

NextCodec == MarshalCall \/ UnmarshalCall

SpecCodec == InitCodec /\ [][NextCodec]_vars

\* One DiffCache under any sequence of its calls.
InitDiff ==
    kind = "coords" /\ IndexIdle /\ CodecIdle /\ DiffInit /\ KeyIdle /\ EnvInit

NextDiff == DiffOpen \/ DiffClose \/ DiffExists \/ DiffRemove

SpecDiff == InitDiff /\ [][NextDiff]_vars

\* A CoordsRefIndex on a new store whose batch writes can fail.
InitFaulty ==
    /\ kind = "coords" /\ IndexInitOn({<<>>}) /\ refCaches = <<>>
    /\ CodecIdle /\ DiffIdle /\ KeyIdle /\ EnvInit

NextFaulty == Next \/ WriterWriteFail

SpecFaulty == InitFaulty /\ [][NextFaulty]_vars

\* A CoordsRefIndex on a store that holds a malformed record.
InitCorrupt ==
    /\ kind = "coords" /\ IndexInitOn(CorruptStores) /\ refCaches = <<>>
    /\ CodecIdle /\ DiffIdle /\ KeyIdle /\ EnvInit

SpecCorrupt == InitCorrupt /\ [][Next]_vars

\* A CoordsRefIndex on a new store; at the threshold cacheSizeTight its
\* buffer is full at every entry, so that the hand-off queue fills up.
InitPressure ==
    /\ kind = "coords" /\ IndexInitOn({<<>>})
    /\ CodecIdle /\ DiffIdle /\ KeyIdle /\ EnvTight

\* Every call is made on the line 9.
NextPressure ==
    \/ AddFromWayCall /\ call'.id = 9
    \/ AddFromWayStep
    \/ CallReturn
    \/ Pipeline

SpecPressure == InitPressure /\ [][NextPressure]_vars

\* Indexes opened, fed and closed one after the other in one process; each
\* is given the point 3 of the line 9 and nothing else: at the threshold
\* cacheSize no buffer reaches it and each index flushes once, in Close.
InitLives ==
    /\ kind = "coords" /\ IndexInitOn({<<>>})
    /\ CodecIdle /\ DiffIdle /\ KeyIdle /\ EnvTight

NextLives ==
    \/ AddFromWayCall /\ call'.id = 9
    \/ AddFromWayStep /\ accepted' = <<[id |-> 3, ref |-> 9]>>
    \/ CallReturn
    \/ Pipeline
    \/ Reopen

SpecLives == InitLives /\ [][NextLives]_vars

\* The steps of the caller of RefIndex.Close once close(index.add) has run,
\* of dispatch, and of writer outside the workers of writeRefs.
CloseStep == CloseWrite \/ CloseStore

DispatchStep ==
    \/ DispatchRecv \/ DispatchHandoff \/ DispatchRefill
    \/ DispatchDrained \/ DispatchFinal

WriterStep == WriterRecv \/ WriterCollected \/ WriterWrite \/ WriterDrained

\* A worker of writeRefs can run: an id of the buffer is still to be merged.
\* This is ENABLED <<WriterMergeAny>>_vars written out (every id of todo is
\* in Ids, and a merge takes its id out of todo).
MergePending == wpc = "merge" /\ todo # {}

\* Weak fairness of the workers, WF_vars(WriterMergeAny), with the
\* enabling condition written out as MergePending.
WorkersFair == []<>(~MergePending) \/ []<><<WriterMergeAny>>_vars

\* The index of SpecPressure with refCaches occupied from the start and
\* the Go scheduler's guarantee that a goroutine that can run does run,
\* for the caller of Close, dispatch, writer and the workers of writeRefs;
\* nothing is assumed about the recycling goroutines.
InitClose == InitPressure /\ refCaches # <<>>

Fairness ==
    /\ WF_vars(CloseStep)
    /\ WF_vars(DispatchStep)
    /\ WF_vars(WriterStep)
    /\ WorkersFair

SpecClose == InitClose /\ [][NextPressure]_vars /\ Fairness

\* idToKeyBuf called on any two ids.
InitKeys ==
    kind = "coords" /\ IndexIdle /\ CodecIdle /\ DiffIdle /\ KeyInit /\ EnvInit

NextKeys == EncodeKeys

SpecKeys == InitKeys /\ [][NextKeys]_vars

\* ------------------------------------------------------------------------
\* Properties
\* ------------------------------------------------------------------------

Count(x, seq) == Cardinality({i \in 1..Len(seq) : seq[i] = x})

\* The refs of the entries accepted for id, in the order they were accepted.
AcceptedFor(id) ==
    LET mine == SelectSeq(accepted, LAMBDA e : e.id = id)
    IN [i \in 1..Len(mine) |-> mine[i].ref]

\* Nothing is pending anywhere in the pipeline: a full flush has happened.
FullyFlushed ==
    /\ call = NoCall
    /\ add = <<>>
    /\ dpc \in {"recv", "done"}
    /\ buffer # NoBuf => heap[buffer] = <<>>
    /\ write = <<>>
    /\ wpc \in {"recv", "done"}

\* C1: in every reachable state, for every id, the persisted record decodes
\* to the ascending multiset union of the ref batches whose flush has
\* completed for that id (the records the store was opened with included):
\* a flush merges into a record and never drops or replaces what it holds.
C1_StoreIsUnionOfFlushes ==
    \A id \in Ids : Persisted(db, id) = SortRefs(flushed[id])

\* A second flush has merged a smaller ref into a record (10, then 3).
C1_Witness ==
    /\ wpc = "recv"
    /\ \E id \in Ids :
          /\ Len(flushed[id]) >= 2
          /\ ~IsAscending(flushed[id])
          /\ Persisted(db, id) = SortRefs(flushed[id])

\* C2: once Close has returned, for every id the persisted record is the
\* sorted multiset of the refs the store held for it when the index was
\* opened and of every ref added for it, whatever the number of entries.
C2_CloseFlushesEverything ==
    cpc = "closed" =>
        \A id \in Ids :
            Persisted(db, id) = SortRefs(Persisted(db0, id) \o AcceptedFor(id))

\* Close has returned after entries for fewer ids than the threshold.
C2_Witness ==
    /\ cpc = "closed"
    /\ accepted # <<>>
    /\ Cardinality({accepted[i].id : i \in 1..Len(accepted)}) < cacheSize
    /\ \E id \in Ids : Persisted(db, id) # Persisted(db0, id)

\* C3: after a full flush the record of every id is ascending and holds
\* each ref as many times as it was added for the id (and was held before),
\* whatever the order of the calls and however the threshold split them.
C3_OrderIndependent ==
    FullyFlushed =>
        \A id \in Ids :
            /\ IsAscending(Persisted(db, id))
            /\ \A ref \in Refs :
                  Count(ref, Persisted(db, id)) =
                      Count(ref, Persisted(db0, id)) + Count(ref, AcceptedFor(id))

\* A full flush while the index is open of refs added in descending order,
\* with a repeat.
C3_Witness ==
    /\ FullyFlushed
    /\ cpc = "open"
    /\ \E id \in Ids :
          /\ ~IsAscending(AcceptedFor(id))
          /\ \E ref \in Refs : Count(ref, Persisted(db, id)) >= 2

\* C4: the result of Get(id) is the decoding of the record persisted for id
\* (empty without one), whatever the queues and buffers hold, and holds no
\* ref beyond those flushed for id.
C4_GetReadsStoreOnly ==
    got.called =>
        /\ got.refs = Persisted(db, got.id)
        /\ \A ref \in Refs :
              Count(ref, got.refs) <= Count(ref, flushed[got.id])

\* Get has returned without an entry that add had accepted for its id.
C4_Witness ==
    /\ got.called
    /\ \E ref \in Refs :
          Count(ref, got.refs) <
              Count(ref, Persisted(db0, got.id)) + Count(ref, AcceptedFor(got.id))

\* C7: the store handle is closed only when dispatch has consumed index.add
\* and handed off what its buffer held, and writer has written every buffer
\* handed to it and has returned, so that nothing reads or writes the store
\* afterwards.
C7_CloseOrdered ==
    ~dbOpen =>
        /\ add = <<>>
        /\ dpc = "done"
        /\ buffer # NoBuf => heap[buffer] = <<>>
        /\ write = <<>>
        /\ wpc = "done"
        /\ wbuf = NoBuf
        /\ \A id \in Ids :
              SortRefs(flushed[id]) =
                  SortRefs(Persisted(db0, id) \o AcceptedFor(id))

\* The handle is closed after a hand-off at the threshold and a last one.
C7_Witness ==
    /\ ~dbOpen
    /\ buffer = NoBuf
    /\ Len(accepted) = 3
    /\ accepted[1].id # accepted[2].id

\* C8: AddFromWay sends one (point, line) entry per position of the line's
\* point list, in order, and nothing else; after Close the record of every
\* point p holds every line L as many more times as p occurs in the point
\* lists of the calls made with L.
C8_FanOut ==
    /\ call.op = "AddFromWay" =>
          /\ Len(call.sent) = call.n
          /\ call.sent = call.want
    /\ (kind = "coords" /\ cpc = "closed") =>
          \A p \in Ids, L \in Refs :
              Count(L, Persisted(db, p)) =
                  Count(L, Persisted(db0, p)) + Count(L, expected[p])

\* Close has returned after a line whose point list holds a point twice.
C8_Witness ==
    /\ kind = "coords"
    /\ cpc = "closed"
    /\ Len(accepted) = 2
    /\ accepted[1] = accepted[2]
    /\ Count(accepted[1].ref, Persisted(db, accepted[1].id)) >= 2

\* C9: AddFromMembers sends one (member, relation) entry for each member of
\* type WAY, in order, and none for a member of another type; after Close
\* the record of every id holds the relation as many more times as the
\* calls named the id as a member of type WAY, and is unchanged otherwise.
C9_MemberFilter ==
    /\ call.op = "AddFromMembers" => call.sent = call.want
    /\ (kind = "ways" /\ cpc = "closed") =>
          \A m \in Ids, rel \in Refs :
              Count(rel, Persisted(db, m)) =
                  Count(rel, Persisted(db0, m)) + Count(rel, expected[m])

\* A call has passed two members and sent one entry, for the member 3.
C9_Witness ==
    /\ call.op = "AddFromMembers"
    /\ call.n = 2
    /\ call.sent = <<[id |-> 3, ref |-> call.id]>>

\* The byte string ends inside a varint: its last byte has the continuation
\* bit set.
Truncated(buf) == buf # <<>> /\ buf[Len(buf)] >= ContBit

\* C5: UnmarshalRefs of a byte string that ends inside a varint hands its
\* caller an error, never just the refs decoded so far.
C5_TruncationIsAnError ==
    (codecOut.op = "UnmarshalRefs" /\ Truncated(decIn)) => codecOut.err

\* C6: UnmarshalRefs(MarshalRefs(refs)) = refs for every ascending sequence
\* of words, repeats and differences that overflow the word included.
C6_RoundTrip ==
    (codecOut.op = "UnmarshalRefs" /\ codecOut.rt) =>
        /\ decIn = codecOut.buf
        /\ codecOut.refs = encIn

\* The round trip of the least word followed twice by the greatest, for
\* which MarshalRefs grows its buffer.
C6_Witness ==
    /\ codecOut.op = "UnmarshalRefs"
    /\ codecOut.rt
    /\ encIn = <<MinInt, MaxInt, MaxInt>>
    /\ MarshalGrew(encIn)
    /\ codecOut.refs = <<MinInt, MaxInt, MaxInt>>

\* C10: an Open that fails leaves every facade it opened closed, both
\* fields unset and the cache not marked opened; an Open that succeeds
\* leaves both facades open and the cache marked opened.
C10_OpenAllOrNothing ==
    ret.op = "Open" =>
        IF ret.err
        THEN /\ openedNow \cap live = {}
             /\ Coords = NoIndex
             /\ Ways = NoIndex
             /\ ~opened
        ELSE /\ opened
             /\ Coords \in live
             /\ Ways \in live

\* C11: for any two ids a < b of the signed range, a negative a and a
\* non-negative b included, the key of a is smaller than the key of b under
\* lexicographic unsigned-byte comparison, and distinct ids have distinct
\* keys.
C11_KeyOrderPreserving ==
    keyOut # <<>> =>
        /\ keyIn[1] < keyIn[2] => KeyLess(keyOut[1], keyOut[2])
        /\ keyIn[1] # keyIn[2] => keyOut[1] # keyOut[2]

\* C12: once the batch write of a handed-off buffer has failed, the flush
\* stage flushes nothing more for the index: no later buffer is taken to
\* be merged or written.
C12_FailureStopsFlushing ==
    writeErrs # {} => (wbuf = NoBuf /\ wpc \in {"recv", "done"})

\* C13: if the bytes persisted for an id are malformed (decoding them fails
\* part-way), no flush replaces them by a record built from the decoded
\* prefix and the new refs: the stored bytes stay as they were.
C13_MalformedNotOverwritten ==
    \A id \in Ids :
        LET keyBuf == idToKeyBuf(id)
        IN (keyBuf \in DOMAIN db0 /\ UnmarshalLogged(db0[keyBuf])) =>
               db[keyBuf] = db0[keyBuf]

\* C14: flushes of one index are serialized.  A buffer is taken from the
\* hand-off queue only when no flush is in progress, and it is the oldest
\* one handed off; the queue grows only at its end; the store changes only
\* by the batch write that ends the flush in progress; merges happen only
\* for ids of the buffer being flushed.
C14_FlushesSerialized ==
    /\ [](/\ (wpc \in {"merge", "write"}) <=> (wbuf # NoBuf)
          /\ todo # {} => wpc = "merge"
          /\ batch # <<>> => wpc \in {"merge", "write"}
          /\ wpc = "merge" =>
                 DOMAIN batch = {idToKeyBuf(id) : id \in DOMAIN wsnap \ todo})
    /\ [][/\ (write # <<>> /\ write' = Tail(write)) =>
                 /\ wpc = "recv" /\ wbuf = NoBuf /\ batch = <<>>
                 /\ wbuf' = Head(write)
          /\ Len(write') > Len(write) => write' = Append(write, buffer)
          /\ db' # db => (wpc = "write" /\ wpc' = "recv" /\ wbuf' = NoBuf)
          /\ batch' # batch => (wpc' = "merge" \/ wpc = "write")]_vars

\* A flush is in progress with one id merged while two more buffers wait
\* in the hand-off queue.
C14_Witness ==
    /\ wpc = "merge"
    /\ todo = {}
    /\ batch # <<>>
    /\ Len(write) = WriteCap

\* The buffers one index can have in flight: those in the hand-off queue
\* and the one being flushed.
RecycleBound == WriteCap + 1

\* C15: the emptied buffers and workers waiting to offer a buffer to the
\* pool stay bounded by a constant, whatever the number of flushes and of
\* indexes opened and closed (the claim names no constant: the buffers one
\* index can have in flight are taken).
C15_RecycleBounded == Cardinality(DOMAIN recyclers) <= RecycleBound

\* Who holds the buffer b: dispatch as the buffer it fills or is about to
\* hand off, the hand-off queue, writeRefs while its feeder and workers
\* read it, the goroutine that empties and offers it, the pool.
HeldLive(b) == IF dpc \in {"recv", "handoff", "final"} /\ buffer = b THEN 1 ELSE 0
HeldQueued(b) == Count(b, write)
HeldFlushing(b) == IF wpc = "merge" /\ wbuf = b THEN 1 ELSE 0
HeldRecycling(b) == IF b \in DOMAIN recyclers THEN 1 ELSE 0
HeldPooled(b) == Count(b, refCaches)
Holders(b) ==
    HeldLive(b) + HeldQueued(b) + HeldFlushing(b) + HeldRecycling(b) + HeldPooled(b)

\* C16: every buffer is held by at most one of dispatch (as its live
\* buffer), the hand-off queue, the flush reading it, a pending recycle and
\* the pool; a buffer in the pool or on offer is empty, so that the buffer
\* dispatch obtains from the pool is empty; and a buffer changes only by
\* dispatch inserting into its live buffer or by the recycler emptying the
\* buffer it holds.
C16_ExclusiveOwnership ==
    /\ [](/\ \A b \in DOMAIN heap : Holders(b) <= 1
          /\ \A i \in 1..Len(refCaches) : heap[refCaches[i]] = <<>>
          /\ \A b \in DOMAIN recyclers :
                 recyclers[b] = "offer" => heap[b] = <<>>)
    /\ [][/\ (dpc = "refill" /\ dpc' = "recv") => heap'[buffer'] = <<>>
          /\ \A b \in DOMAIN heap :
                 heap'[b] # heap[b] =>
                     \/ HeldLive(b) = 1 /\ dpc = "recv" /\ heap'[b] # <<>>
                     \/ HeldRecycling(b) = 1 /\ recyclers[b] = "clear"
                           /\ heap'[b] = <<>>]_vars

\* dispatch has filled the buffer it obtained from the pool, where another
\* index had left it, while the buffer it handed off before is being
\* flushed.
C16_Witness ==
    /\ dpc = "handoff"
    /\ buffer = 0
    /\ heap[buffer] # <<>>
    /\ wpc = "merge"
    /\ wbuf # buffer
    /\ todo # {}

\* C17: a flush is all-or-nothing for its buffer.  The batch write is
\* issued only when the batch holds the pair of every id of the buffer, and
\* a step that changes the store is that batch write: it leaves, for every
\* id of the buffer, the record merged from what the store held and the
\* buffer's refs, and every other record as it was.  A failed batch write
\* changes nothing.
C17_FlushAllOrNothing ==
    /\ [](wpc = "write" =>
             /\ todo = {}
             /\ DOMAIN batch = {idToKeyBuf(id) : id \in DOMAIN wsnap})
    /\ [][db' # db =>
             /\ wpc = "write"
             /\ writeErrs' = writeErrs
             /\ \A id \in Ids :
                    LET keyBuf == idToKeyBuf(id)
                    IN IF id \in DOMAIN wsnap
                       THEN /\ keyBuf \in DOMAIN db'
                            /\ UnmarshalRefs(db'[keyBuf]) =
                                   SortRefs(Persisted(db, id) \o wsnap[id])
                       ELSE /\ keyBuf \in DOMAIN db' <=> keyBuf \in DOMAIN db
                            /\ keyBuf \in DOMAIN db => db'[keyBuf] = db[keyBuf]]_vars

\* The flush of a buffer of two ids has written both records, and the
\* batch write of the next buffer has failed and left the store as it was.
C17_Witness ==
    /\ wpc = "recv"
    /\ writeErrs # {}
    /\ Cardinality(DOMAIN db) = 2
    /\ \A id \in Ids : Persisted(db, id) = SortRefs(flushed[id])
    /\ \E id \in Ids : Len(AcceptedFor(id)) > Len(flushed[id])

\* The buffers handed off and not yet completely flushed.
InFlight == Len(write) + (IF wbuf # NoBuf THEN 1 ELSE 0)

\* C18: the hand-off queue never holds more than 2 buffers, so that at most
\* 3 are handed off and not yet flushed; the live buffer never holds more
\* distinct ids than the threshold; dispatch takes an entry from index.add
\* only at the head of its loop, and while it waits to hand off to a full
\* queue it takes none and its buffer stays as it is.
C18_BoundedInFlight ==
    /\ [](/\ Len(write) <= 2
          /\ InFlight <= 3
          /\ buffer # NoBuf => Size(heap[buffer]) <= threshold
          /\ (dpc = "recv" /\ buffer # NoBuf) => Size(heap[buffer]) < threshold)
    /\ [][/\ Len(add') < Len(add) => dpc = "recv"
          /\ (dpc = "handoff" /\ Len(write) = 2) =>
                 /\ dpc' = "handoff"
                 /\ buffer' = buffer
                 /\ heap'[buffer] = heap[buffer]
                 /\ Len(add') >= Len(add)]_vars

\* dispatch waits to hand off its third buffer: the queue holds the first
\* two, which writer has not taken yet.
C18_Witness ==
    /\ dpc = "handoff"
    /\ Len(write) = WriteCap
    /\ heap[buffer] # <<>>
    /\ buffer \notin {write[1], write[2]}

\* C19: every call of RefIndex.Close returns: once close(index.add) has
\* run, whatever the add queue, the live buffer and the hand-off queue
\* hold and whether or not refCaches is ever emptied, the store handle is
\* eventually closed and Close has returned.
C19_CloseTerminates == (cpc = "waitAdd") ~> (cpc = "closed" /\ ~dbOpen)

\* Close has returned while a recycling goroutine still waits to offer its
\* buffer to the occupied pool.
C19_Witness ==
    /\ cpc = "closed"
    /\ refCaches # <<>>
    /\ \E b \in DOMAIN recyclers : recyclers[b] = "offer"
    /\ Len(accepted) = MaxAdds

\* C20: an Exists() called while the cache holds no open index (after a
\* Remove() or a Close(), before the next successful Open()) reports exactly
\* whether a store directory is on disk: false once a Remove() without
\* error has deleted both, whatever the opened flag.
C20_ExistsReflectsDisk ==
    (ret.op = "Exists" /\ Coords = NoIndex /\ Ways = NoIndex) =>
        (ret.exists <=> (CoordsPath \in disk \/ WaysPath \in disk))

=============================================================================
